---------------------------- MODULE Spec2Model ----------------------------
(***************************************************************************)
(* Model of the health-newsletter pipeline (src/src): the curation engine  *)
(* of news_fetcher.py (is_relevant, date resolution, per-source fetch,     *)
(* scoring, grouping), the entry point main.py and the delivery of         *)
(* send_email.py.                                                          *)
(*                                                                         *)
(* Texts are sequences of words.  A keyword is a sequence of words and     *)
(* `kw in t` is the occurrence of kw as a contiguous run of words of t.    *)
(* The keyword tables are the entries of the tables of the code that are   *)
(* spelled with the words of the modelled vocabulary, in the code's order. *)
(* Scores are whole numbers (every weight of the code is a whole float).   *)
(* Names are written without their accents and with a plain hyphen.        *)
(***************************************************************************)
EXTENDS Integers, Sequences, FiniteSets, TLC

VARIABLES
    pc,            \* position of the running program
    arg,           \* the inputs of the run: arguments, environment, the web
    ret,           \* return value of the function under test
    exc,           \* the exception that is propagating, "none" when there is none
    i,             \* fetch_articles_from_source: index of the link being looked at
    articles,      \* fetch_articles_from_source: articles
    seen_urls,     \* fetch_articles_from_source: seen_urls
    all_articles,  \* fetch_all_articles: all_articles
    grouped,       \* group_articles_by_section: grouped
    recipients,    \* send_email: recipients
    emails,        \* _fetch_emails_from_brevo_list: emails
    offset,        \* _fetch_emails_from_brevo_list: offset
    requests,      \* the network requests issued so far, in order
    log,           \* the log records written so far, in order
    exit_code,     \* exit status of the process, -1 while it runs
    first_run      \* the digest of an earlier run on the same inputs, when there was one

vars == <<pc, arg, ret, exc, i, articles, seen_urls, all_articles, grouped,
          recipients, emails, offset, requests, log, exit_code, first_run>>

(***************************************************************************)
(* Bounds of the model.                                                    *)
(***************************************************************************)
MaxTextLen == 3

(***************************************************************************)
(* Sections (sources.py).                                                  *)
(***************************************************************************)
SECTION_BRASIL == "brasil"
SECTION_MUNDO == "mundo"
SECTION_HEALTHTECHS == "healthtechs"
SECTION_WELLNESS == "wellness"

(***************************************************************************)
(* Texts.                                                                  *)
(***************************************************************************)
\* str.lower() on one word: the vocabulary has two words with capitals.
LowerWord(w) ==
    CASE w = "Prefeitura" -> "prefeitura"
      [] w = "TELEMEDICINA" -> "telemedicina"
      [] OTHER -> w

\* str.lower() on a text
Lower(t) == [k \in 1..Len(t) |-> LowerWord(t[k])]

\* Python's `kw in t` on strings: kw occurs in t at some offset
In(kw, t) ==
    \E k \in 0..(Len(t) - Len(kw)) : \A j \in 1..Len(kw) : t[k + j] = kw[j]

POSITIVE_KEYWORDS ==
    << <<"telemedicina">>, <<"operadora">>, <<"hospital">>,
       <<"saude", "mental">>, <<"wellness">> >>

NEGATIVE_KEYWORDS ==
    << <<"prefeitura">>, <<"hospital", "municipal">>, <<"crime">> >>

\* the `for word in NEGATIVE_KEYWORDS: if word in t: return False` loop,
\* from keyword number k on: TRUE when the loop returns False
RECURSIVE NegativeLoopReturns(_, _)
NegativeLoopReturns(t, k) ==
    IF k > Len(NEGATIVE_KEYWORDS) THEN FALSE
    ELSE IF In(NEGATIVE_KEYWORDS[k], t) THEN TRUE
    ELSE NegativeLoopReturns(t, k + 1)

\* a plausible bug: the positive keywords are looked at first
is_relevant_positive_first(text) ==
    IF text = <<>> THEN FALSE
    ELSE LET t == Lower(text) IN
         IF \E k \in 1..Len(POSITIVE_KEYWORDS) : In(POSITIVE_KEYWORDS[k], t)
         THEN TRUE
         ELSE FALSE

is_relevant(text) ==
    IF text = <<>> THEN FALSE
    ELSE LET t == Lower(text) IN
         IF NegativeLoopReturns(t, 1) THEN FALSE
         ELSE \E k \in 1..Len(POSITIVE_KEYWORDS) : In(POSITIVE_KEYWORDS[k], t)

(***************************************************************************)
(* SpecRelevant: is_relevant applied to every text of at most MaxTextLen   *)
(* words of RelevantVocab.                                                 *)
(***************************************************************************)
RelevantVocab ==
    {"hospital", "municipal", "Prefeitura", "TELEMEDICINA", "crime", "futebol"}

\* the state of the parts of the program that have not run
NoGrouped ==
    [s \in {SECTION_BRASIL, SECTION_MUNDO, SECTION_HEALTHTECHS, SECTION_WELLNESS}
        |-> <<>>]

IdleFetch ==
    /\ i = 1
    /\ articles = <<>>
    /\ seen_urls = {}
    /\ all_articles = <<>>
    /\ grouped = NoGrouped

IdleSend ==
    /\ recipients = <<>>
    /\ emails = <<>>
    /\ offset = 0
    /\ log = <<>>
    /\ exit_code = -1

fetchVars == <<i, articles, seen_urls, all_articles, grouped>>
sendVars == <<recipients, emails, offset, exit_code>>

InitRelevant ==
    /\ pc = "call_is_relevant"
    /\ \E n \in 0..MaxTextLen : \E t \in [1..n -> RelevantVocab] :
          arg = [text |-> t]
    /\ ret = FALSE
    /\ exc = "none"
    /\ first_run = <<>>
    /\ requests = <<>>
    /\ IdleFetch
    /\ IdleSend

CallIsRelevant ==
    /\ pc = "call_is_relevant"
    /\ ret' = is_relevant(arg.text)
    /\ pc' = "is_relevant_returned"
    /\ UNCHANGED <<arg, first_run, exc, requests, fetchVars, log, sendVars>>

NextRelevant == CallIsRelevant

SpecRelevant == InitRelevant /\ [][NextRelevant]_vars

(***************************************************************************)
(* C7.                                                                     *)
(***************************************************************************)
\* the lower-cased words of kw stand at offset k of the text
OccursAt(kw, text, k) ==
    /\ k + Len(kw) <= Len(text)
    /\ \A j \in 1..Len(kw) : LowerWord(text[k + j]) = kw[j]

HasNegative(text) ==
    \E n \in 1..Len(NEGATIVE_KEYWORDS), k \in 0..Len(text) :
        OccursAt(NEGATIVE_KEYWORDS[n], text, k)

HasPositive(text) ==
    \E p \in 1..Len(POSITIVE_KEYWORDS), k \in 0..Len(text) :
        OccursAt(POSITIVE_KEYWORDS[p], text, k)

\* C7: is_relevant rejects every text that contains a negative keyword,
\* whatever positive keywords it contains and wherever they stand, and
\* accepts a text only if it has no negative and at least one positive keyword.
C7_NegativeOverridesPositive ==
    pc = "is_relevant_returned" =>
        /\ HasNegative(arg.text) => ret = FALSE
        /\ ret = TRUE => (~HasNegative(arg.text) /\ HasPositive(arg.text))

\* a text whose positive keyword stands before its negative keyword was rejected
C7_Witness ==
    /\ pc = "is_relevant_returned"
    /\ ret = FALSE
    /\ \E k1, k2 \in 0..Len(arg.text) :
          /\ k1 < k2
          /\ OccursAt(<<"telemedicina">>, arg.text, k1)
          /\ OccursAt(<<"prefeitura">>, arg.text, k2)

(***************************************************************************)
(* Dates.  A date-looking token of a text is [kind, y, m, d] with the      *)
(* numbers the pattern's groups hold; datetime.date(y, m, d) raises       *)
(* ValueError unless it is a day of the calendar.                           *)
(***************************************************************************)
IsLeap(y) == (y % 4 = 0 /\ y % 100 # 0) \/ y % 400 = 0

DaysInMonth(y, m) ==
    IF m \in {4, 6, 9, 11} THEN 30
    ELSE IF m = 2 THEN (IF IsLeap(y) THEN 29 ELSE 28)
    ELSE 31

\* datetime.date(y, m, d) does not raise
ValidDate(y, m, d) ==
    /\ y \in 1..9999
    /\ m \in 1..12
    /\ d \in 1..DaysInMonth(y, m)

\* datetime._days_before_year(y)
DaysBeforeYear(y) ==
    LET p == y - 1 IN p * 365 + (p \div 4) - (p \div 100) + (p \div 400)

RECURSIVE DaysBeforeMonth(_, _)
DaysBeforeMonth(y, m) ==
    IF m <= 1 THEN 0 ELSE DaysBeforeMonth(y, m - 1) + DaysInMonth(y, m - 1)

\* date.toordinal()
Ordinal(dt) == DaysBeforeYear(dt.y) + DaysBeforeMonth(dt.y, dt.m) + dt.d

\* (a - b).days
DaysBetween(a, b) == Ordinal(a) - Ordinal(b)

Date(y, m, d) == [y |-> y, m |-> m, d |-> d]

\* results of the resolvers: a date, None, or a raised ValueError
NoDate == [st |-> "none", y |-> 0, m |-> 0, d |-> 0]
Raised == [st |-> "raise", y |-> 0, m |-> 0, d |-> 0]

\* datetime.date(y, m, d) on the groups of a match
MakeDate(tok) ==
    IF ValidDate(tok.y, tok.m, tok.d)
    THEN [st |-> "date", y |-> tok.y, m |-> tok.m, d |-> tok.d]
    ELSE Raised

\* re.search of the pattern of one kind: the leftmost token of that kind
FirstOfKind(dates, kind) ==
    LET hits == {k \in 1..Len(dates) : dates[k].kind = kind} IN
    IF hits = {} THEN <<>>
    ELSE <<dates[CHOOSE k \in hits : \A h \in hits : k <= h]>>

\* the patterns tried in another order: the EN month name first
TEXT_PATTERNS_EN_FIRST == <<"en", "ptmon", "num", "iso">>

\* the order in which _parse_date_from_text tries its patterns
TEXT_PATTERNS == <<"ptmon", "num", "iso", "en">>

RECURSIVE ParseFromPattern(_, _)
ParseFromPattern(dates, p) ==
    IF p > Len(TEXT_PATTERNS) THEN NoDate
    ELSE LET m == FirstOfKind(dates, TEXT_PATTERNS[p]) IN
         IF m # <<>> THEN MakeDate(m[1])
         ELSE ParseFromPattern(dates, p + 1)

_parse_date_from_text(text) ==
    IF text.words = <<>> /\ text.dates = <<>> THEN NoDate
    ELSE ParseFromPattern(text.dates, 1)

\* a URL carries at most the first /YYYY/MM/DD/ segment of its path
_parse_date_from_url(url) ==
    IF url.udate = <<>> THEN NoDate ELSE MakeDate(url.udate[1])

\* `a or b` on two resolver calls: b is evaluated only when a returned None
OrElse(a, b) == IF a.st = "none" THEN b ELSE a

\* fetch_html(url): the text of the page, None on HTTPError, URLError and
\* TimeoutError; any other exception of urlopen/read/decode propagates
\* page.status: "ok" | "neterr" | "othererr"
fetch_html(page) ==
    CASE page.status = "ok" -> [st |-> "html", html |-> page.html]
      [] page.status = "neterr" -> [st |-> "none", html |-> page.html]
      [] OTHER -> [st |-> "raise", html |-> page.html]

\* `if html:` an empty page is falsy
Truthy(text) == text.words # <<>> \/ text.dates # <<>>

\* a plausible bug: the last day of the window is left out
InWindowStrict(today, d, max_days) ==
    LET delta == DaysBetween(today, d) IN 0 <= delta /\ delta < max_days

\* the window test `0 <= delta <= max_days`
InWindow(today, d, max_days) ==
    LET delta == DaysBetween(today, d) IN 0 <= delta /\ delta <= max_days

\* is_recent_with_article_fetch: [st: "bool" | "ValueError" | "OtherError",
\*  val, fetched: whether the article page was requested]
is_recent_with_article_fetch(title, url, page, max_days, today) ==
    LET d == OrElse(_parse_date_from_text(title), _parse_date_from_url(url)) IN
    IF d.st = "raise" THEN [st |-> "ValueError", val |-> FALSE, fetched |-> FALSE]
    ELSE IF d.st = "date"
    THEN [st |-> "bool", val |-> InWindow(today, d, max_days), fetched |-> FALSE]
    ELSE LET h == fetch_html(page) IN
         IF h.st = "raise"
         THEN [st |-> "OtherError", val |-> FALSE, fetched |-> TRUE]
         ELSE IF h.st = "html" /\ Truthy(h.html)
         THEN LET d2 == OrElse(_parse_date_from_text(h.html),
                               _parse_date_from_url(url)) IN
              IF d2.st = "raise"
              THEN [st |-> "ValueError", val |-> FALSE, fetched |-> TRUE]
              ELSE IF d2.st = "date"
              THEN [st |-> "bool", val |-> InWindow(today, d2, max_days),
                    fetched |-> TRUE]
              ELSE [st |-> "bool", val |-> FALSE, fetched |-> TRUE]
         ELSE [st |-> "bool", val |-> FALSE, fetched |-> TRUE]

(***************************************************************************)
(* SpecRecent: is_recent_with_article_fetch applied to a title, a URL and  *)
(* an article page that each carry at most one date-looking token, for     *)
(* every reference date of Todays and every max_days of 0..MaxDays.        *)
(***************************************************************************)
MaxDays == 3

\* values of datetime.now().date()
Todays == {Date(2025, 12, 10), Date(2025, 12, 1), Date(2026, 1, 1), Date(2024, 3, 1)}

\* the day before dt, by the calendar
PrevDay(dt) ==
    IF dt.d > 1 THEN Date(dt.y, dt.m, dt.d - 1)
    ELSE IF dt.m > 1 THEN Date(dt.y, dt.m - 1, DaysInMonth(dt.y, dt.m - 1))
    ELSE Date(dt.y - 1, 12, 31)

NextDay(dt) ==
    IF dt.d < DaysInMonth(dt.y, dt.m) THEN Date(dt.y, dt.m, dt.d + 1)
    ELSE IF dt.m < 12 THEN Date(dt.y, dt.m + 1, 1)
    ELSE Date(dt.y + 1, 1, 1)

RECURSIVE DaysBack(_, _)
DaysBack(dt, n) == IF n = 0 THEN dt ELSE DaysBack(PrevDay(dt), n - 1)

\* numbers a date pattern can match that are no day of the calendar
MalformedDates == {Date(2025, 11, 31), Date(2025, 13, 1), Date(2025, 12, 0)}

\* the dates written in the inputs: around the window's edge, today,
\* tomorrow, and the malformed ones
WrittenDates(today, max_days) ==
    {DaysBack(today, 0), DaysBack(today, max_days), DaysBack(today, max_days + 1),
     NextDay(today)} \cup MalformedDates

Token(kind, dt) == [kind |-> kind, y |-> dt.y, m |-> dt.m, d |-> dt.d]

\* what the pattern of a kind can match: the month of ptmon and en is a name,
\* iso and url want a year 20xx
Matchable(kind, dt) ==
    /\ kind \in {"ptmon", "en"} => dt.m \in 1..12
    /\ kind \in {"iso", "url"} => dt.y \in 2000..2099
    /\ dt.d \in 0..99 /\ dt.m \in 0..99

TokensOf(kinds, dts) ==
    {<<>>} \cup {<<Token(k, dt)>> : k \in kinds,
                                    dt \in {x \in dts : \A kk \in kinds : Matchable(kk, x)}}

TextOf(words, dates) == [words |-> words, dates |-> dates]

\* a URL: its scheme://netloc, its path (a number names it), the
\* /YYYY/MM/DD/ segment of the path if any, whether it holds a blocklisted
\* substring, whether the path holds an /amp/ segment
Url(site, path, udate, blk, amp) ==
    [site |-> site, path |-> path, udate |-> udate, blk |-> blk, amp |-> amp]

Page(status, html) == [status |-> status, html |-> html]

EmptyText == TextOf(<<>>, <<>>)

InitRecent ==
    /\ pc = "call_is_recent"
    /\ \E today \in Todays, md \in 0..MaxDays :
          \E td \in TokensOf({"ptmon"}, WrittenDates(today, md))
                      \cup TokensOf({"num"}, WrittenDates(today, md))
                      \cup TokensOf({"en"}, WrittenDates(today, md)),
             ud \in TokensOf({"url"}, WrittenDates(today, md)),
             pg \in {Page("neterr", EmptyText), Page("othererr", EmptyText),
                     Page("ok", EmptyText)}
                    \cup {Page("ok", TextOf(<<"hospital">>, hd)) :
                            hd \in TokensOf({"iso"}, WrittenDates(today, md))} :
             arg = [title |-> TextOf(<<"hospital">>, td),
                    url |-> Url("https://site", 1, ud, FALSE, FALSE),
                    page |-> pg,
                    max_days |-> md,
                    today |-> today]
    /\ ret = [st |-> "bool", val |-> FALSE, fetched |-> FALSE]
    /\ exc = "none"
    /\ first_run = <<>>
    /\ requests = <<>>
    /\ IdleFetch
    /\ IdleSend

CallIsRecent ==
    /\ pc = "call_is_recent"
    /\ LET r == is_recent_with_article_fetch(arg.title, arg.url, arg.page,
                                             arg.max_days, arg.today) IN
       /\ ret' = r
       /\ exc' = IF r.st = "bool" THEN "none" ELSE r.st
       /\ requests' = IF r.fetched THEN <<[op |-> "GET", url |-> arg.url]>> ELSE <<>>
    /\ pc' = "is_recent_returned"
    /\ UNCHANGED <<arg, first_run, fetchVars, log, sendVars>>

NextRecent == CallIsRecent

SpecRecent == InitRecent /\ [][NextRecent]_vars

(***************************************************************************)
(* C5, C6.                                                                 *)
(***************************************************************************)
\* the date the article carries, in the order title, URL, fetched page
\* (each input of SpecRecent holds at most one token); <<>> when none
WrittenToken(a) ==
    IF a.title.dates # <<>> THEN a.title.dates
    ELSE IF a.url.udate # <<>> THEN a.url.udate
    ELSE IF a.page.status = "ok" THEN a.page.html.dates
    ELSE <<>>

TokenIs(toks, dt) ==
    toks # <<>> /\ toks[1].y = dt.y /\ toks[1].m = dt.m /\ toks[1].d = dt.d

\* C5: for any max_days and reference date, an article whose date is exactly
\* today - max_days is accepted and one dated today - max_days - 1 is rejected.
C5_WindowBoundary ==
    (pc = "is_recent_returned" /\ exc = "none") =>
        /\ TokenIs(WrittenToken(arg), DaysBack(arg.today, arg.max_days))
              => ret.val = TRUE
        /\ TokenIs(WrittenToken(arg), DaysBack(arg.today, arg.max_days + 1))
              => ret.val = FALSE

\* the example of the specification: max_days = 2, today = 2025-12-10, an
\* article dated 2025-12-08 by its URL was accepted
C5_Witness ==
    /\ pc = "is_recent_returned"
    /\ arg.today = Date(2025, 12, 10) /\ arg.max_days = 2
    /\ arg.title.dates = <<>>
    /\ TokenIs(arg.url.udate, Date(2025, 12, 8))
    /\ ret.st = "bool" /\ ret.val = TRUE

\* C6: date resolution never raises on a malformed date match in a title,
\* URL or page: the match is skipped and the candidate is still evaluated.
C6_NeverRaisesOnMalformedDate ==
    pc = "is_recent_returned" => exc # "ValueError"

(***************************************************************************)
(* Articles and the score.                                                 *)
(***************************************************************************)
Article(title, url, source_name, section, score) ==
    [title |-> title, url |-> url, source_name |-> source_name,
     section |-> section, score |-> score]

\* <<term, weight>> entries of STRATEGIC_TERMS and PHYSICAL_EVENT_TERMS
STRATEGIC_TERMS ==
    << <<<<"fusao">>, 7>>, <<<<"parceria">>, 6>>, <<<<"operadora">>, 5>> >>

\* the physical-event terms as a bonus
PHYSICAL_EVENT_TERMS_BONUS ==
    << <<<<"inaugura">>, 8>>, <<<<"congresso">>, 3>> >>

PHYSICAL_EVENT_TERMS ==
    << <<<<"inaugura">>, -5>>, <<<<"congresso">>, -3>> >>

\* `for term, w in table.items(): if term in title: score += w`
RECURSIVE TermSum(_, _, _)
TermSum(table, title, k) ==
    IF k > Len(table) THEN 0
    ELSE (IF In(table[k][1], title) THEN table[k][2] ELSE 0)
         + TermSum(table, title, k + 1)

\* `for word in POSITIVE_KEYWORDS: if word in title: score += 1.0`
RECURSIVE PositiveSum(_, _)
PositiveSum(title, k) ==
    IF k > Len(POSITIVE_KEYWORDS) THEN 0
    ELSE (IF In(POSITIVE_KEYWORDS[k], title) THEN 1 ELSE 0)
         + PositiveSum(title, k + 1)

\* the business-press boosts, by the substrings of the URL and of the source
UrlBoost(url, source) ==
    (IF url.site \in {"https://www.bloomberglinea.com.br", "https://www.bloomberg.com"}
        THEN 7 ELSE 0)
    + (IF url.site = "https://neofeed.com.br" THEN 6 ELSE 0)
    + (IF url.site = "https://exame.com" THEN 5 ELSE 0)
    + (IF url.site = "https://valor.globo.com"
          \/ source \in {"valor economico - saude", "pipeline - valor"}
        THEN 4 ELSE 0)

LowerName(name) ==
    CASE name = "Valor Economico - Saude" -> "valor economico - saude"
      [] name = "Pipeline - Valor" -> "pipeline - valor"
      [] OTHER -> name

compute_score(article) ==
    LET title == Lower(article.title.words)
        source == LowerName(article.source_name)
    IN  PositiveSum(title, 1)
        + (IF In(<<"telemedicina">>, title) \/ In(<<"atendimento", "virtual">>, title)
              THEN 6 ELSE 0)
        + (IF In(<<"saude", "mental">>, title) \/ In(<<"bets">>, title)
              THEN 5 ELSE 0)
        + (IF In(<<"inteligencia", "artificial">>, title) THEN 4 ELSE 0)
        + TermSum(STRATEGIC_TERMS, title, 1)
        + TermSum(PHYSICAL_EVENT_TERMS, title, 1)
        + UrlBoost(article.url, source)
        + (IF article.section = SECTION_HEALTHTECHS THEN 2 ELSE 0)

(***************************************************************************)
(* group_articles_by_section.                                              *)
(***************************************************************************)
SECTION_CAP == 20

\* seq[-n:]: the last n elements
Suffix(seq, n) == SubSeq(seq, IF Len(seq) < n THEN 1 ELSE Len(seq) - n + 1, Len(seq))

\* seq[:n]
Prefix(seq, n) == SubSeq(seq, 1, IF Len(seq) < n THEN Len(seq) ELSE n)

\* the `for art in articles` loop from article k on: [grouped, seen_urls]
RECURSIVE GroupLoop(_, _, _, _)
GroupLoop(arts, k, g, seen) ==
    IF k > Len(arts) THEN g
    ELSE LET art == arts[k] IN
         IF ~is_relevant(art.title.words) THEN GroupLoop(arts, k + 1, g, seen)
         ELSE IF art.url \in seen THEN GroupLoop(arts, k + 1, g, seen)
         ELSE GroupLoop(arts, k + 1,
                        [g EXCEPT ![art.section] = Append(@, art)],
                        seen \cup {art.url})

\* a plausible bug: seen_urls is kept per section
RECURSIVE GroupLoopSeenPerSection(_, _, _, _)
GroupLoopSeenPerSection(arts, k, g, seen) ==
    IF k > Len(arts) THEN g
    ELSE LET art == arts[k] IN
         IF ~is_relevant(art.title.words)
         THEN GroupLoopSeenPerSection(arts, k + 1, g, seen)
         ELSE IF <<art.section, art.url>> \in seen
         THEN GroupLoopSeenPerSection(arts, k + 1, g, seen)
         ELSE GroupLoopSeenPerSection(arts, k + 1,
                        [g EXCEPT ![art.section] = Append(@, art)],
                        seen \cup {<<art.section, art.url>>})

group_articles_by_section_per_section(arts) ==
    LET g == GroupLoopSeenPerSection(arts, 1, NoGrouped, {}) IN
    [sec \in DOMAIN g |-> Prefix(g[sec], SECTION_CAP)]

group_articles_by_section(arts) ==
    LET g == GroupLoop(arts, 1, NoGrouped, {}) IN
    [sec \in DOMAIN g |-> Prefix(g[sec], SECTION_CAP)]

(***************************************************************************)
(* SpecGroup: group_articles_by_section applied to every list of at most   *)
(* MaxArts articles of GroupPool.                                          *)
(***************************************************************************)
MaxArts == 3

GroupTitles ==
    {TextOf(<<"telemedicina", "extraordinariamente">>, <<>>),
     TextOf(<<"TELEMEDICINA", "extraordinariamente">>, <<>>),
     TextOf(<<"hospital", "extraordinariamente">>, <<>>),
     TextOf(<<"futebol", "extraordinariamente">>, <<>>)}

GroupUrls ==
    {Url("https://www.estadao.com.br", 1, <<>>, FALSE, FALSE),
     Url("https://www.estadao.com.br", 2, <<>>, FALSE, FALSE)}

\* a score that reads state outside the article: the runs made before
ScoredByRun(art) == [art EXCEPT !.score = compute_score(art) + Len(first_run)]

\* `art.score = compute_score(art)`
Scored(art) == [art EXCEPT !.score = compute_score(art)]

GroupPool ==
    {Scored(Article(t, u, "Estadao - Saude", sec, 0)) :
        t \in GroupTitles, u \in GroupUrls, sec \in {SECTION_BRASIL, SECTION_MUNDO}}

InitGroup ==
    /\ pc = "call_group"
    /\ \E n \in 0..MaxArts : \E q \in [1..n -> GroupPool] :
          arg = [articles |-> q]
    /\ ret = FALSE
    /\ exc = "none"
    /\ first_run = <<>>
    /\ requests = <<>>
    /\ IdleFetch
    /\ IdleSend

CallGroup ==
    /\ pc = "call_group"
    /\ grouped' = group_articles_by_section(arg.articles)
    /\ pc' = "group_returned"
    /\ UNCHANGED <<arg, first_run, ret, exc, requests, i, articles, seen_urls, all_articles,
                   log, sendVars>>

NextGroup == CallGroup

SpecGroup == InitGroup /\ [][NextGroup]_vars

(***************************************************************************)
(* C1, C8.                                                                 *)
(***************************************************************************)
\* the places <<section, position>> of a digest
Places(g) == UNION {{<<sec, k>> : k \in 1..Len(g[sec])} : sec \in DOMAIN g}

\* C1: in every digest, no URL appears in more than one section list and no
\* URL appears twice in the same section list.
C1_NoDuplicateUrl ==
    pc = "group_returned" =>
        \A p, q \in Places(grouped) :
            grouped[p[1]][p[2]].url = grouped[q[1]][q[2]].url => p = q

\* the input held the same URL under two sections, both relevant, and the
\* digest was produced
C1_Witness ==
    /\ pc = "group_returned"
    /\ \E a, b \in 1..Len(arg.articles) :
          /\ a < b
          /\ arg.articles[a].url = arg.articles[b].url
          /\ arg.articles[a].section # arg.articles[b].section
          /\ is_relevant(arg.articles[a].title.words)
          /\ is_relevant(arg.articles[b].title.words)
    /\ \E p \in Places(grouped) : TRUE

\* the normalized title: lower-cased, non-word characters stripped
NormalizedTitle(art) == Lower(art.title.words)

\* C8: within one section of a digest no two articles have the same
\* normalized title.
C8_NoDuplicateTitleInSection ==
    pc = "group_returned" =>
        \A p, q \in Places(grouped) :
            (p[1] = q[1] /\ NormalizedTitle(grouped[p[1]][p[2]])
                             = NormalizedTitle(grouped[q[1]][q[2]]))
            => p = q

(***************************************************************************)
(* fetch_articles_from_source and the body of fetch_all_articles' loop.    *)
(***************************************************************************)
MAX_ARTICLES_PER_SOURCE == 3

MIN_TITLE_LEN == 25

\* len() of a word
WordLen(w) ==
    CASE w \in {"fusao", "crime", "saude"} -> 5
      [] w \in {"mental"} -> 6
      [] w \in {"anuncia", "futebol"} -> 7
      [] w \in {"hospital", "inaugura", "wellness", "parceria"} -> 8
      [] w \in {"operadora", "municipal", "congresso"} -> 9
      [] w \in {"prefeitura", "Prefeitura"} -> 10
      [] w \in {"telemedicina", "TELEMEDICINA"} -> 12
      [] w = "extraordinariamente" -> 19
      [] OTHER -> 6

RECURSIVE WordsLen(_, _)
WordsLen(words, k) ==
    IF k > Len(words) THEN 0 ELSE WordLen(words[k]) + WordsLen(words, k + 1)

\* len(title): the words, the date tokens (10 characters each) and one
\* space between two of them
StrLen(text) ==
    LET n == Len(text.words) + Len(text.dates) IN
    WordsLen(text.words, 1) + 10 * Len(text.dates) + (IF n > 0 THEN n - 1 ELSE 0)

\* A URL whose path holds a percent-escape carries the field esc: "%C3%BA"
\* when the escape is written in it, "u" when the character itself is.
\* A query value is a URL under a number of layers of percent-encoding.
WithEsc(url, esc) ==
    [site |-> url.site, path |-> url.path, udate |-> url.udate, blk |-> url.blk,
     amp |-> url.amp, esc |-> esc]

Quoted(url, layers) == [url |-> url, layers |-> layers]

\* an AMP proxy URL: its own path with an /amp/ segment, and the raw values
\* of the url parameters of its query (<<>> when none or blank)
ProxyUrl(path, udate, query_url) ==
    [site |-> "https://cdn.ampproject.org", path |-> path, udate |-> udate,
     blk |-> FALSE, amp |-> TRUE, query_url |-> query_url]

\* one percent-decoding of a string: a layer of encoding goes, or, when
\* there is none, the escapes written in the URL itself become characters
Unquote(q) ==
    IF q.layers > 0 THEN [q EXCEPT !.layers = @ - 1]
    ELSE IF "esc" \in DOMAIN q.url /\ q.url.esc = "%C3%BA"
         THEN [q EXCEPT !.url.esc = "u"]
         ELSE q

\* the string as a URL; a string still encoded has no scheme://netloc
AsUrl(q) == IF q.layers = 0 THEN q.url ELSE [q.url EXCEPT !.site = "https%3A"]

\* `"cdn.ampproject.org" in url`
IsAmpProxy(url) == url.site = "https://cdn.ampproject.org"

\* parse_qs(parsed.query): the url values, decoded; blank values dropped
ParseQsUrl(url) ==
    IF "query_url" \in DOMAIN url
    THEN [k \in 1..Len(url.query_url) |-> Unquote(url.query_url[k])]
    ELSE <<>>

\* normalize_amp_url: unquote(qs["url"][0]) for a proxy URL with a url
\* parameter, url.replace("/amp/", "/") otherwise
normalize_amp_url(url) ==
    IF IsAmpProxy(url) /\ ParseQsUrl(url) # <<>>
    THEN AsUrl(Unquote(ParseQsUrl(url)[1]))
    ELSE [url EXCEPT !.amp = FALSE]

\* extract_domain(source.base_url)
extract_domain(url) == url.site

\* href.startswith(base_domain)
StartsWith(href, base_domain) == href.site = base_domain

is_blacklisted_url(url) == url.blk

\* getattr: Source (sources.py) has the fields name, url, section, max_articles
HasAttr(obj, a) == a \in DOMAIN obj

\* the window of the brasil section given to every section
MaxDaysOfBrasil(source) == 2

\* `max_days = 2 if source.section == SECTION_BRASIL else 1`
MaxDaysOf(source) == IF source.section = SECTION_BRASIL THEN 2 ELSE 1

\* one pass of the `for link in parser.links` body:
\* [st: "skip" | "accept" | "ValueError" | "OtherError", art, fetched]
ProcessLink(source, link, seen, today) ==
    LET href == normalize_amp_url(link.href)
        title == link.text
        none == Article(title, href, source.name, source.section, 0)
        out(st, f) == [st |-> st, art |-> none, fetched |-> f]
    IN  IF ~StartsWith(href, extract_domain(source.base_url)) THEN out("skip", FALSE)
        ELSE IF href \in seen THEN out("skip", FALSE)
        ELSE IF is_blacklisted_url(href) THEN out("skip", FALSE)
        ELSE IF StrLen(title) < MIN_TITLE_LEN THEN out("skip", FALSE)
        ELSE IF ~is_relevant(title.words) THEN out("skip", FALSE)
        ELSE LET r == is_recent_with_article_fetch(title, href, link.page,
                                                   MaxDaysOf(source), today) IN
             IF r.st # "bool" THEN out(r.st, r.fetched)
             ELSE IF ~r.val THEN out("skip", r.fetched)
             ELSE out("accept", r.fetched)

Get(url) == [op |-> "GET", url |-> url]

\* a log record: level, message, the exception logged with it
LogRecord(level, msg, e) == [level |-> level, msg |-> msg, exc |-> e]

\* list.sort(key=lambda a: a.score, reverse=True): stable, highest first
RECURSIVE InsertByScore(_, _)
InsertByScore(sorted, a) ==
    IF sorted = <<>> THEN <<a>>
    ELSE IF Head(sorted).score >= a.score
         THEN <<Head(sorted)>> \o InsertByScore(Tail(sorted), a)
         ELSE <<a>> \o sorted

RECURSIVE SortByScoreDesc(_)
SortByScoreDesc(seq) ==
    IF seq = <<>> THEN <<>>
    ELSE InsertByScore(SortByScoreDesc(SubSeq(seq, 1, Len(seq) - 1)), seq[Len(seq)])

\* fetch_all_articles, loop body: the call of fetch_articles_from_source,
\* up to the fetch of the homepage
StartSource ==
    /\ pc = "fetch_source"
    /\ IF ~HasAttr(arg.source, "base_url")
       THEN /\ exc' = "AttributeError"
            /\ pc' = "source_raised"
            /\ UNCHANGED requests
       ELSE /\ requests' = Append(requests, Get(arg.source.base_url))
            /\ CASE arg.homepage = "ok" ->
                      pc' = "link_loop" /\ UNCHANGED exc
                 [] arg.homepage = "othererr" ->
                      pc' = "source_raised" /\ exc' = "OtherError"
                 [] OTHER ->
                      pc' = "source_returned" /\ UNCHANGED exc
    /\ UNCHANGED <<arg, first_run, ret, fetchVars, log, sendVars>>

\* one iteration of `for link in parser.links`, or the end of the loop
LinkStep ==
    /\ pc = "link_loop"
    /\ IF i > Len(arg.links) \/ Len(articles) >= MAX_ARTICLES_PER_SOURCE
       THEN /\ pc' = "source_returned"
            /\ UNCHANGED <<i, articles, seen_urls, requests, exc>>
       ELSE LET link == arg.links[i]
                r == ProcessLink(arg.source, link, seen_urls, arg.today)
            IN  /\ requests' = IF r.fetched
                               THEN Append(requests, Get(r.art.url))
                               ELSE requests
                /\ CASE r.st = "accept" ->
                          /\ articles' = Append(articles, r.art)
                          /\ seen_urls' = seen_urls \cup {r.art.url}
                          /\ i' = i + 1
                          /\ UNCHANGED <<pc, exc>>
                     [] r.st = "skip" ->
                          /\ i' = i + 1
                          /\ UNCHANGED <<pc, exc, articles, seen_urls>>
                     [] OTHER ->
                          /\ exc' = r.st
                          /\ pc' = "source_raised"
                          /\ UNCHANGED <<i, articles, seen_urls>>
    /\ UNCHANGED <<arg, first_run, ret, all_articles, grouped, log, sendVars>>

\* `except Exception: logger.exception(...); continue`
CatchSourceError ==
    /\ pc = "source_raised"
    /\ log' = Append(log, LogRecord("exception", "Erro ao processar fonte", exc))
    /\ exc' = "none"
    /\ pc' = "sources_done"
    /\ UNCHANGED <<arg, first_run, ret, requests, fetchVars, sendVars>>

\* `for art in src_articles: art.score = compute_score(art); append`
ScoreArticles ==
    /\ pc = "source_returned"
    /\ articles' = [k \in 1..Len(articles) |-> Scored(articles[k])]
    /\ all_articles' = all_articles \o articles'
    /\ pc' = "sources_done"
    /\ UNCHANGED <<arg, first_run, ret, exc, requests, i, seen_urls, grouped, log, sendVars>>

\* `all_articles.sort(...)`; `return all_articles`
SortAll ==
    /\ pc = "sources_done"
    /\ all_articles' = SortByScoreDesc(all_articles)
    /\ pc' = "fetched_all"
    /\ UNCHANGED <<arg, first_run, ret, exc, requests, i, articles, seen_urls, grouped, log, sendVars>>

\* fetch_all_news: `return group_articles_by_section(articles)`
GroupAll ==
    /\ pc = "fetched_all"
    /\ grouped' = group_articles_by_section(all_articles)
    /\ pc' = "digest"
    /\ UNCHANGED <<arg, first_run, ret, exc, requests, i, articles, seen_urls, all_articles,
                   log, sendVars>>

(***************************************************************************)
(* SpecSource: one pass of the loop of fetch_all_articles (a source, the   *)
(* links of its homepage, the pages of its articles), then the sort and    *)
(* the grouping of what the source gave.                                   *)
(***************************************************************************)
MaxLinks == 4

\* two of the Source objects that _build_sources() makes
ConfiguredSources ==
    {[name |-> "Estadao - Saude",
      url |-> Url("https://www.estadao.com.br", 0, <<>>, FALSE, FALSE),
      section |-> SECTION_BRASIL, max_articles |-> 3],
     [name |-> "STAT News",
      url |-> Url("https://www.statnews.com", 0, <<>>, FALSE, FALSE),
      section |-> SECTION_MUNDO, max_articles |-> 2]}

\* fetch_articles_from_source reads source.base_url, which no Source has:
\* the function is also run on objects that carry the attribute
WithBaseUrl(src) ==
    [name |-> src.name, url |-> src.url, section |-> src.section,
     max_articles |-> src.max_articles, base_url |-> src.url]

SourceArgs == ConfiguredSources \cup {WithBaseUrl(src) : src \in ConfiguredSources}

SourceToday == Date(2025, 12, 10)

Link(href, text, page) == [href |-> href, text |-> text, page |-> page]

NoPage == Page("neterr", EmptyText)

\* a link of the source's own site whose URL is dated today
FreshLink(site, path, words) ==
    Link(Url(site, path, <<Token("url", SourceToday)>>, FALSE, FALSE),
         TextOf(words, <<>>), NoPage)

\* links that pass every filter, with scores 1, 7, -4 and 13 in page order,
\* a second link to the first URL, and a link whose score ties with the first
RankPool(site) ==
    {FreshLink(site, 1, <<"hospital", "extraordinariamente">>),
     FreshLink(site, 2, <<"telemedicina", "extraordinariamente">>),
     FreshLink(site, 3, <<"hospital", "inaugura", "extraordinariamente">>),
     FreshLink(site, 4, <<"operadora", "anuncia", "fusao", "extraordinariamente">>),
     FreshLink(site, 1, <<"operadora", "anuncia", "fusao", "extraordinariamente">>),
     FreshLink(site, 5, <<"wellness", "extraordinariamente">>)}

\* links that meet the filters
FilterPool(site) ==
    {FreshLink(site, 1, <<"hospital", "extraordinariamente">>),
     FreshLink("https://other.example", 5, <<"hospital", "extraordinariamente">>),
     FreshLink(site, 6, <<"hospital">>),
     FreshLink(site, 7, <<"Prefeitura", "inaugura", "hospital", "municipal">>),
     Link(Url(site, 8, <<Token("url", SourceToday)>>, TRUE, FALSE),
          TextOf(<<"hospital", "extraordinariamente">>, <<>>), NoPage),
     Link(Url(site, 9, <<>>, FALSE, TRUE),
          TextOf(<<"hospital", "extraordinariamente">>,
                 <<Token("num", Date(2025, 11, 31))>>), NoPage),
     Link(Url(site, 10, <<>>, FALSE, FALSE),
          TextOf(<<"telemedicina", "extraordinariamente">>, <<>>),
          Page("ok", TextOf(<<"hospital">>, <<Token("iso", DaysBack(SourceToday, 2))>>))),
     Link(Url(site, 11, <<>>, FALSE, FALSE),
          TextOf(<<"hospital", "extraordinariamente">>, <<>>),
          Page("othererr", EmptyText))}

\* links dated by URL, title or page on both sides of the windows of 1 and 2
\* days, a link dated tomorrow, and a link with no date anywhere
WindowPool(site) ==
    {Link(Url(site, 21, <<Token("url", DaysBack(SourceToday, 1))>>, FALSE, FALSE),
          TextOf(<<"hospital", "extraordinariamente">>, <<>>), NoPage),
     Link(Url(site, 22, <<>>, FALSE, FALSE),
          TextOf(<<"telemedicina", "extraordinariamente">>,
                 <<Token("ptmon", DaysBack(SourceToday, 2))>>), NoPage),
     Link(Url(site, 23, <<>>, FALSE, FALSE),
          TextOf(<<"hospital", "extraordinariamente">>, <<>>),
          Page("ok", TextOf(<<"hospital">>, <<Token("iso", DaysBack(SourceToday, 3))>>))),
     Link(Url(site, 24, <<Token("url", NextDay(SourceToday))>>, FALSE, FALSE),
          TextOf(<<"hospital", "extraordinariamente">>, <<>>), NoPage),
     Link(Url(site, 25, <<>>, FALSE, FALSE),
          TextOf(<<"hospital", "extraordinariamente">>, <<>>),
          Page("ok", TextOf(<<"hospital">>, <<>>)))}

\* links through the AMP proxy to an article of the site, to an article of
\* the site whose URL holds a percent-escape, and to another site, with the
\* direct links to the two articles of the site
AmpPool(site) ==
    LET today == <<Token("url", SourceToday)>>
        plain == Url(site, 31, today, FALSE, FALSE)
        escaped == WithEsc(Url(site, 32, today, FALSE, FALSE), "%C3%BA")
        other == Url("https://other.example", 33, today, FALSE, FALSE)
        text == TextOf(<<"hospital", "extraordinariamente">>, <<>>)
    IN  {Link(ProxyUrl(41, today, <<Quoted(plain, 1)>>), text, NoPage),
         Link(plain, text, NoPage),
         Link(ProxyUrl(42, today, <<Quoted(escaped, 1)>>), text, NoPage),
         Link(escaped, text, NoPage),
         Link(ProxyUrl(43, today, <<Quoted(other, 1)>>), text, NoPage)}

LinkPools(site) == {RankPool(site), FilterPool(site), WindowPool(site), AmpPool(site)}

\* the call of fetch_articles_from_source on a page of at most max links
InitSourceUpTo(max) ==
    /\ pc = "fetch_source"
    /\ \E src \in SourceArgs :
          \/ /\ HasAttr(src, "base_url")
             /\ \E pool \in LinkPools(src.url.site) :
                   \E n \in 0..max : \E q \in [1..n -> pool] :
                      arg = [source |-> src, homepage |-> "ok", links |-> q,
                             today |-> SourceToday]
          \/ \E hp \in {"ok", "empty", "neterr", "othererr"} :
                /\ hp = "ok" => ~HasAttr(src, "base_url")
                /\ arg = [source |-> src, homepage |-> hp, links |-> <<>>,
                          today |-> SourceToday]
    /\ ret = FALSE
    /\ exc = "none"
    /\ first_run = <<>>
    /\ requests = <<>>
    /\ IdleFetch
    /\ IdleSend

InitSource == InitSourceUpTo(MaxLinks)

NextSource ==
    \/ StartSource
    \/ LinkStep
    \/ CatchSourceError
    \/ ScoreArticles
    \/ SortAll
    \/ GroupAll

SpecSource == InitSource /\ [][NextSource]_vars

(***************************************************************************)
(* C2, C3.                                                                 *)
(***************************************************************************)
\* the articles of a source in a section list of the digest
FromSource(g, sec, name) == {k \in 1..Len(g[sec]) : g[sec][k].source_name = name}

Passes(source, link, today) ==
    /\ link.href.site = source.url.site
    /\ ~link.href.blk
    /\ StrLen(link.text) >= MIN_TITLE_LEN
    /\ is_relevant(link.text.words)
    /\ LET r == is_recent_with_article_fetch(link.text, link.href, link.page,
                                             MaxDaysOf(source), today) IN
       r.st = "bool" /\ r.val

ScoreOfLink(source, link) ==
    compute_score(Article(link.text, link.href, source.name, source.section, 0))

ValidEmail(e) == e \in {"a@x.com", "b@x.com", "c@x.com", "d@x.com"}

\* "@" in piece
HasAt(e) == ValidEmail(e) \/ e = "bad@"

\* [e for e in seq if keep(e)]
RECURSIVE NonEmptyPieces(_)
NonEmptyPieces(seq) ==
    IF seq = <<>> THEN <<>>
    ELSE (IF Head(seq) # "" THEN <<Head(seq)>> ELSE <<>>) \o NonEmptyPieces(Tail(seq))

\* _parse_and_validate_emails(raw): [st: "ok" | "RuntimeError", emails]
_parse_and_validate_emails(raw) ==
    IF raw = <<>> THEN [st |-> "ok", emails |-> <<>>]
    ELSE LET es == NonEmptyPieces(raw) IN
         IF \E k \in 1..Len(es) : ~ValidEmail(es[k])
         THEN [st |-> "RuntimeError", emails |-> <<>>]
         ELSE [st |-> "ok", emails |-> es]

\* the list left as it is
KeepDuplicates(seq) == seq

\* list(dict.fromkeys(seq)): first occurrences, in order
RECURSIVE Dedupe(_)
Dedupe(seq) ==
    IF seq = <<>> THEN <<>>
    ELSE LET init == Dedupe(SubSeq(seq, 1, Len(seq) - 1))
             last == seq[Len(seq)] IN
         IF \E k \in 1..Len(init) : init[k] = last THEN init ELSE Append(init, last)

\* int(to_raw) does not raise
IsInt(raw) == raw = <<"7">>

\* `resp.status_code >= 300`
IsErrorStatusOff(status) == status > 300

IsErrorStatus(status) == status >= 300

\* page size of the contacts API
LIMIT == 100

\* sources.py binds the name sources_by_section to a function (def), which
\* news_fetcher.py imports and uses as a mapping
sources_by_section == [type |-> "function"]

\* obj.items exists
HasItems(obj) == obj.type = "dict"

\* the process starts: main() logs and calls fetch_all_news()
MainStart ==
    /\ pc = "main"
    /\ log' = Append(log, LogRecord("info", "Buscando noticias nas fontes configuradas...", "none"))
    /\ pc' = "fetch_all_articles"
    /\ UNCHANGED <<arg, first_run, ret, exc, requests, fetchVars, sendVars>>

\* fetch_all_articles: `for section, sources in sources_by_section.items()`
FetchAllArticles ==
    /\ pc = "fetch_all_articles"
    /\ IF HasItems(sources_by_section)
       THEN pc' = "fetch_source" /\ UNCHANGED exc
       ELSE pc' = "main_raised" /\ exc' = "AttributeError"
    /\ UNCHANGED <<arg, first_run, ret, requests, fetchVars, log, sendVars>>

\* `except Exception as exc: logger.exception(...); sys.exit(1)`
MainExcept ==
    /\ pc = "main_raised"
    /\ log' = Append(log, LogRecord("exception", "Erro ao gerar/enviar newsletter", exc))
    /\ exc' = "none"
    /\ exit_code' = 1
    /\ pc' = "exited"
    /\ UNCHANGED <<arg, first_run, ret, requests, fetchVars, recipients, emails, offset>>

\* main() returns: the process ends with status 0
MainReturn ==
    /\ pc = "main_done"
    /\ exit_code' = 0
    /\ pc' = "exited"
    /\ UNCHANGED <<arg, first_run, ret, exc, requests, fetchVars, log, recipients, emails, offset>>

(***************************************************************************)
(* main, after fetch_all_news: the filter of the sections and render_html. *)
(***************************************************************************)
\* "folha" in src_norm and "equilibr" in src_norm
IsFolhaEquilibrio(name) == name = "Folha - Equilibrio e Saude"

\* _extract_year_from_url: the year of the /20YY/ segment, 0 for None
ExtractYear(url) ==
    IF url.udate # <<>> /\ url.udate[1].y \in 2000..2099 THEN url.udate[1].y ELSE 0

_is_valid_article(art, today) ==
    IF IsFolhaEquilibrio(art.source_name) THEN FALSE
    ELSE LET year == ExtractYear(art.url) IN
         ~(year # 0 /\ year < today.y - 2)

RECURSIVE Filter(_, _)
Filter(seq, today) ==
    IF seq = <<>> THEN <<>>
    ELSE (IF _is_valid_article(Head(seq), today) THEN <<Head(seq)>> ELSE <<>>)
         \o Filter(Tail(seq), today)

\* _flatten: the lists of sections.values(), in the order of the dict
_flatten(sections) ==
    sections[SECTION_BRASIL] \o sections[SECTION_MUNDO]
        \o sections[SECTION_HEALTHTECHS] \o sections[SECTION_WELLNESS]

TOP_N == 5

\* the top list cut from the flattened sections without the sort
render_html_unsorted(sections) ==
    [top5 |-> Prefix(_flatten(sections), TOP_N),
     sections |-> sections]

\* render_html: what the page shows
render_html(sections) ==
    [top5 |-> Prefix(SortByScoreDesc(_flatten(sections)), TOP_N),
     sections |-> sections]

\* main.py:84-93
MainFilterRender ==
    /\ pc = "main_filter"
    /\ grouped' = [sec \in DOMAIN grouped |-> Filter(grouped[sec], arg.today)]
    /\ ret' = render_html(grouped')
    /\ log' = log \o <<LogRecord("info", "Renderizando HTML da newsletter...", "none"),
                       LogRecord("info", "Enviando e-mail da newsletter via Brevo API...", "none")>>
    /\ pc' = "send_email"
    /\ UNCHANGED <<arg, first_run, exc, requests, i, articles, seen_urls, all_articles, sendVars>>

(***************************************************************************)
(* send_email.                                                             *)
(***************************************************************************)
Raise(e) == pc' = "main_raised" /\ exc' = e

\* send_email.py:106-115: the credentials and TO_EMAILS_MANUAL
SendReadConfig ==
    /\ pc = "send_email"
    /\ IF ~arg.env.api_key \/ ~arg.env.sender
       THEN Raise("KeyError") /\ UNCHANGED recipients
       ELSE LET m == _parse_and_validate_emails(arg.env.manual) IN
            IF m.st # "ok"
            THEN Raise("RuntimeError: invalid emails") /\ UNCHANGED recipients
            ELSE /\ pc' = "send_resolve"
                 /\ recipients' = <<>>
                 /\ UNCHANGED exc
    /\ UNCHANGED <<arg, first_run, ret, requests, fetchVars, log, emails, offset, exit_code>>

\* no list of emails taken for empty
NoEmailsNever(list) == FALSE

\* `not list_emails`, `not manual_emails`, `not recipients`
NoEmails(list) == list = <<>>

\* every run taken for a scheduled one
IsManualRunNever(event_name) == FALSE

\* `if event_name == "workflow_dispatch"`
IsManualRun(event_name) == event_name = "workflow_dispatch"

\* TO_EMAILS_MANUAL parsed (SendReadConfig has checked it)
ManualEmails == _parse_and_validate_emails(arg.env.manual).emails

\* send_email.py:119-184, up to the call of _fetch_emails_from_brevo_list
SendResolve ==
    /\ pc = "send_resolve"
    /\ IF IsManualRun(arg.env.event)
       THEN IF ~NoEmails(ManualEmails)
            THEN /\ recipients' = ManualEmails
                 /\ log' = Append(log, LogRecord("info", "Execucao manual", "none"))
                 /\ pc' = "send_post"
                 /\ UNCHANGED exc
            ELSE Raise("RuntimeError: no recipient") /\ UNCHANGED <<recipients, log>>
       ELSE LET rec == ManualEmails
                to_raw == arg.env.to
                log0 == IF rec # <<>>
                        THEN Append(log, LogRecord("info", "Incluindo destinatarios em TO_EMAILS_MANUAL", "none"))
                        ELSE log IN
            IF to_raw = <<>>
            THEN IF ~NoEmails(rec)
                 THEN /\ recipients' = Dedupe(rec)
                      /\ log' = Append(log0, LogRecord("info", "Nenhum TO_EMAILS configurado", "none"))
                      /\ pc' = "send_post"
                      /\ UNCHANGED exc
                 ELSE /\ Raise("RuntimeError: no recipient")
                      /\ log' = log0
                      /\ UNCHANGED recipients
            ELSE IF \E k \in 1..Len(to_raw) : HasAt(to_raw[k])
            THEN LET st == _parse_and_validate_emails(to_raw) IN
                 IF st.st # "ok"
                 THEN /\ Raise("RuntimeError: invalid emails")
                      /\ recipients' = rec
                      /\ log' = log0
                 ELSE /\ recipients' = Dedupe(rec \o st.emails)
                      /\ log' = Append(log0, LogRecord("info", "Encontrados destinatarios em TO_EMAILS estatico", "none"))
                      /\ pc' = "send_post"
                      /\ UNCHANGED exc
            ELSE IF ~IsInt(to_raw)
            THEN /\ Raise("RuntimeError: TO_EMAILS")
                 /\ recipients' = rec
                 /\ log' = log0
            ELSE /\ recipients' = rec
                 /\ log' = Append(log0, LogRecord("info", "Buscando contatos na lista da Brevo", "none"))
                 /\ pc' = "send_fetch_list"
                 /\ UNCHANGED exc
    /\ UNCHANGED <<arg, first_run, ret, requests, fetchVars, emails, offset, exit_code>>

\* the expansion stops after its first page
LastPageAlways(count) == TRUE

\* `if not contacts: break` and `if len(contacts) < limit: break`
LastPage(count) == count = 0 \/ count < LIMIT

\* the answer of the contacts API to the request at an offset
ContactsPage(off) ==
    LET k == (off \div LIMIT) + 1 IN
    IF k <= Len(arg.pages) THEN arg.pages[k]
    ELSE [status |-> 200, count |-> 0, emails |-> <<>>]

\* one pass of the `while True` of _fetch_emails_from_brevo_list and, when
\* the loop ends, send_email.py:172-184
SendFetchPage ==
    /\ pc = "send_fetch_list"
    /\ LET page == ContactsPage(offset) IN
       /\ requests' = Append(requests, [op |-> "GET contacts", offset |-> offset])
       /\ IF IsErrorStatus(page.status)
          THEN /\ Raise("RuntimeError: contacts API")
               /\ log' = Append(log, LogRecord("error", "Erro ao buscar contatos", "none"))
               /\ UNCHANGED <<emails, offset, recipients>>
          ELSE LET all == IF page.count = 0 THEN emails ELSE emails \o page.emails
                   done == LastPage(page.count) IN
               IF ~done
               THEN /\ emails' = all
                    /\ offset' = offset + LIMIT
                    /\ UNCHANGED <<pc, exc, log, recipients>>
               ELSE LET list_emails == Dedupe(all) IN
                    /\ emails' = list_emails
                    /\ UNCHANGED offset
                    /\ IF NoEmails(list_emails)
                       THEN /\ Raise("RuntimeError: empty list")
                            /\ UNCHANGED <<log, recipients>>
                       ELSE /\ recipients' = Dedupe(recipients \o list_emails)
                            /\ log' = Append(log, LogRecord("info", "Encontrados contatos na lista Brevo", "none"))
                            /\ pc' = "send_post"
                            /\ UNCHANGED exc
    /\ UNCHANGED <<arg, first_run, ret, fetchVars, exit_code>>

\* send_email.py:186-215 and main.py:96
SendPost ==
    /\ pc = "send_post"
    /\ requests' = Append(requests, [op |-> "POST email", to |-> recipients])
    /\ IF IsErrorStatus(arg.post_status)
       THEN /\ Raise("RuntimeError: Brevo API error")
            /\ log' = log \o <<LogRecord("info", "Enviando newsletter via Brevo", "none"),
                               LogRecord("error", "Erro ao enviar e-mail via Brevo", "none")>>
       ELSE /\ pc' = "main_done"
            /\ log' = log \o <<LogRecord("info", "Enviando newsletter via Brevo", "none"),
                               LogRecord("info", "Newsletter enviada com sucesso via Brevo.", "none"),
                               LogRecord("info", "Newsletter enviada com sucesso.", "none")>>
            /\ UNCHANGED exc
    /\ UNCHANGED <<arg, first_run, ret, fetchVars, sendVars>>

(***************************************************************************)
(* The environments and the answers of the Brevo API.                      *)
(***************************************************************************)
MaxPages == 2

ManualRaws ==
    {<<>>, <<"a@x.com">>, <<"a@x.com", "b@x.com">>, <<"a@x.com", "", "a@x.com">>,
     <<"bad">>}

ToRaws == {<<>>, <<"c@x.com", "a@x.com">>, <<"bad@">>, <<"7">>, <<"abc">>}

\* answers of the contacts API: a full page, a last page, an empty page, an error
PagePool ==
    {[status |-> 200, count |-> LIMIT, emails |-> <<"c@x.com", "a@x.com">>],
     [status |-> 200, count |-> 1, emails |-> <<"d@x.com">>],
     [status |-> 200, count |-> 0, emails |-> <<>>],
     [status |-> 500, count |-> 0, emails |-> <<>>]}

PostStatuses == {200, 300, 500}

\* arg of a run of the process
RunArg(a) ==
    \E key, sender \in BOOLEAN, event \in {"workflow_dispatch", "schedule", ""},
       manual \in ManualRaws, to \in ToRaws, st \in PostStatuses :
       \E n \in 0..MaxPages : \E pages \in [1..n -> PagePool] :
          /\ n > 0 => (to = <<"7">> /\ event = "schedule")
          /\ a = [env |-> [api_key |-> key, sender |-> sender, event |-> event,
                           manual |-> manual, to |-> to],
                  pages |-> pages, post_status |-> st, today |-> SourceToday]

(***************************************************************************)
(* Spec: the process, from the call of main().                             *)
(* fetch_all_articles raises at its first line, so main's except clause    *)
(* ends every run; what main does after fetch_all_news is SpecDeliver.     *)
(***************************************************************************)
Init ==
    /\ pc = "main"
    /\ RunArg(arg)
    /\ ret = FALSE
    /\ exc = "none"
    /\ first_run = <<>>
    /\ requests = <<>>
    /\ IdleFetch
    /\ IdleSend

Next ==
    \/ MainStart
    \/ FetchAllArticles
    \/ MainExcept

Spec == Init /\ [][Next]_vars

(***************************************************************************)
(* SpecDeliver: main() from the return of fetch_all_news (main.py:84) on,  *)
(* for the digests of DeliverDigests.                                      *)
(***************************************************************************)
DeliverArticles ==
    << Scored(Article(TextOf(<<"telemedicina", "extraordinariamente">>, <<>>),
                      Url("https://www.estadao.com.br", 1,
                          <<Token("url", SourceToday)>>, FALSE, FALSE),
                      "Estadao - Saude", SECTION_BRASIL, 0)),
       Scored(Article(TextOf(<<"hospital", "extraordinariamente">>, <<>>),
                      Url("https://www1.folha.uol.com.br", 2, <<>>, FALSE, FALSE),
                      "Folha - Equilibrio e Saude", SECTION_BRASIL, 0)),
       Scored(Article(TextOf(<<"hospital", "extraordinariamente">>, <<>>),
                      Url("https://www.estadao.com.br", 3,
                          <<Token("url", Date(2019, 2, 3))>>, FALSE, FALSE),
                      "Estadao - Saude", SECTION_BRASIL, 0)) >>

DeliverDigests ==
    {NoGrouped, [NoGrouped EXCEPT ![SECTION_BRASIL] = DeliverArticles]}

InitDeliver ==
    /\ pc = "main_filter"
    /\ RunArg(arg)
    /\ ret = FALSE
    /\ exc = "none"
    /\ first_run = <<>>
    /\ requests = <<>>
    /\ i = 1
    /\ articles = <<>>
    /\ seen_urls = {}
    /\ all_articles = <<>>
    /\ grouped \in DeliverDigests
    /\ IdleSend

NextDeliver ==
    \/ MainFilterRender
    \/ SendReadConfig
    \/ SendResolve
    \/ SendFetchPage
    \/ SendPost
    \/ MainReturn
    \/ MainExcept

SpecDeliver == InitDeliver /\ [][NextDeliver]_vars

(***************************************************************************)
(* C4, C9, C10.                                                            *)
(***************************************************************************)
\* the exceptions main's handler has logged
LoggedFatal ==
    {log[k].exc : k \in {j \in 1..Len(log) :
        log[j].level = "exception" /\ log[j].msg = "Erro ao gerar/enviar newsletter"}}

\* C4: a failure while fetching or processing a source never aborts the
\* run: fetch_all_articles goes through the configured sources and returns,
\* so no exception raised under fetch_all_articles reaches main's handler.
C4_FetchNeverAbortsRun ==
    /\ ~(pc = "main_raised" /\ exc \in {"AttributeError", "ValueError", "OtherError"})
    /\ LoggedFatal \cap {"AttributeError", "ValueError", "OtherError"} = {}

Posted == \E k \in 1..Len(requests) : requests[k].op = "POST email"

SuccessLogged ==
    \E k \in 1..Len(log) : log[k].msg = "Newsletter enviada com sucesso."

\* C9: if the email API answers the send request with a status >= 300,
\* send_email raises, main never logs success and the process exits with a
\* non-zero status.
C9_DeliveryFailureIsFatal ==
    (Posted /\ arg.post_status >= 300) =>
        /\ pc \in {"main_raised", "exited"}
        /\ ~SuccessLogged
        /\ pc = "exited" => exit_code # 0

\* the API answered 300 to the send request and the process has exited
C9_Witness ==
    /\ Posted
    /\ arg.post_status = 300
    /\ pc = "exited"
    /\ exit_code = 1
    /\ "RuntimeError: Brevo API error" \in LoggedFatal

\* a required credential is missing, or no recipient is configured
ConfigMissing(env) ==
    \/ ~env.api_key
    \/ ~env.sender
    \/ NonEmptyPieces(env.manual) = <<>>
          /\ (env.event = "workflow_dispatch" \/ NonEmptyPieces(env.to) = <<>>)

ConfigErrors == {"KeyError", "RuntimeError: no recipient"}

ConfigDetected == exc \in ConfigErrors \/ LoggedFatal \cap ConfigErrors # {}

\* C10: a configuration failure is detected, and is fatal, at startup:
\* the process does not enter the fetch of the news before it.
C10_ConfigFailsFast ==
    ConfigMissing(arg.env) => (pc = "main" \/ ConfigDetected)

(***************************************************************************)
(* SpecTwice: the pipeline of SpecSource run a second time on the same     *)
(* fetch results and the same today.                                       *)
(***************************************************************************)
\* fetch_all_news is called again with what the first call returned kept aside
RunAgain ==
    /\ pc = "digest"
    /\ first_run = <<>>
    /\ first_run' = <<grouped>>
    /\ pc' = "fetch_source"
    /\ i' = 1
    /\ articles' = <<>>
    /\ seen_urls' = {}
    /\ all_articles' = <<>>
    /\ grouped' = NoGrouped
    /\ requests' = <<>>
    /\ log' = <<>>
    /\ UNCHANGED <<arg, ret, exc, sendVars>>

NextTwice ==
    \/ NextSource
    \/ RunAgain

MaxTwiceLinks == 3

InitTwice == InitSourceUpTo(MaxTwiceLinks)

SpecTwice == InitTwice /\ [][NextTwice]_vars

MaxQuotaArts == 23

\* article k of a list: its section alternates when alt, its URL repeats the
\* one before it every dup-th article, its title is off topic every irr-th
QuotaArticle(k, alt, dup, irr) ==
    Scored(Article(
        TextOf(IF irr > 0 /\ k % irr = 0
               THEN <<"futebol", "extraordinariamente">>
               ELSE <<"hospital", "extraordinariamente">>, <<>>),
        Url("https://www.estadao.com.br",
            IF dup > 0 /\ k % dup = 0 THEN k - 1 ELSE k, <<>>, FALSE, FALSE),
        "Estadao - Saude",
        IF alt /\ k % 2 = 0 THEN SECTION_MUNDO ELSE SECTION_BRASIL,
        0))

InitQuota ==
    /\ pc = "call_group"
    /\ \E n \in 0..MaxQuotaArts, alt \in BOOLEAN, dup \in {0, 5}, irr \in {0, 7} :
          arg = [articles |-> [k \in 1..n |-> QuotaArticle(k, alt, dup, irr)]]
    /\ ret = FALSE
    /\ exc = "none"
    /\ first_run = <<>>
    /\ requests = <<>>
    /\ IdleFetch
    /\ IdleSend

NextQuota == CallGroup

SpecQuota == InitQuota /\ [][NextQuota]_vars

\* the positions of arts whose article the dedupe keeps for section sec:
\* relevant, and no relevant article before it has its URL
DedupedOf(arts, sec) ==
    {k \in 1..Len(arts) :
        /\ arts[k].section = sec
        /\ is_relevant(arts[k].title.words)
        /\ \A j \in 1..(k - 1) :
              is_relevant(arts[j].title.words) => arts[j].url # arts[k].url}

InSection(g, sec, art) == \E p \in 1..Len(g[sec]) : g[sec][p] = art

\* C12: every section list of the digest has at most 20 articles, and the
\* quota keeps a prefix of the deduplicated list: an article it drops never
\* precedes, in the order before truncation, an article it keeps.
C12_SectionQuotaPrefix ==
    pc = "group_returned" =>
        \A sec \in DOMAIN grouped :
            /\ Len(grouped[sec]) <= SECTION_CAP
            /\ \A j, k \in DedupedOf(arg.articles, sec) :
                  (j < k /\ InSection(grouped, sec, arg.articles[k]))
                  => InSection(grouped, sec, arg.articles[j])

\* the quota has cut a section list
C12_Witness ==
    /\ pc = "group_returned"
    /\ \E sec \in DOMAIN grouped :
          /\ Cardinality(DedupedOf(arg.articles, sec)) > SECTION_CAP
          /\ Len(grouped[sec]) = SECTION_CAP

(***************************************************************************)
(* C13.                                                                    *)
(***************************************************************************)
\* the words of the titles, in the order of str comparison
WordOrder ==
    <<"Prefeitura", "TELEMEDICINA", "anuncia", "congresso", "crime",
      "extraordinariamente", "fusao", "futebol", "hospital", "inaugura", "mental",
      "municipal", "operadora", "parceria", "prefeitura", "saude", "telemedicina",
      "wellness">>

WordRank(w) ==
    IF \E k \in 1..Len(WordOrder) : WordOrder[k] = w
    THEN CHOOSE k \in 1..Len(WordOrder) : WordOrder[k] = w
    ELSE 0

\* a <= b for two titles as strings
RECURSIVE TitleLeq(_, _)
TitleLeq(a, b) ==
    IF a = <<>> THEN TRUE
    ELSE IF b = <<>> THEN FALSE
    ELSE IF Head(a) = Head(b) THEN TitleLeq(Tail(a), Tail(b))
    ELSE WordRank(Head(a)) < WordRank(Head(b))

\* a comes no later than b: higher score, or equal score and title not after
Precedes(a, b) ==
    \/ a.score > b.score
    \/ a.score = b.score /\ TitleLeq(a.title.words, b.title.words)

MaxTokens == 2

OrderToday == Date(2025, 12, 10)

\* a recent date and a stale one for a window of max_days
OrderDates(max_days) == {OrderToday, DaysBack(OrderToday, max_days + 1)}

TitleTokens(max_days) ==
    {Token(k, dt) : k \in {"ptmon", "num", "iso", "en"}, dt \in OrderDates(max_days)}

HtmlTokens(max_days) == {Token(k, dt) : k \in {"iso", "en"}, dt \in OrderDates(max_days)}

InitOrder ==
    /\ pc = "call_is_recent"
    /\ \E md \in 1..2 :
          \E nt \in 0..MaxTokens, nh \in 0..MaxTokens :
             \E td \in [1..nt -> TitleTokens(md)], hd \in [1..nh -> HtmlTokens(md)],
                ud \in {<<>>} \cup {<<Token("url", dt)>> : dt \in OrderDates(md)},
                status \in {"ok", "neterr"} :
                /\ status = "neterr" => nh = 0
                /\ arg = [title |-> TextOf(<<"hospital">>, td),
                          url |-> Url("https://site", 1, ud, FALSE, FALSE),
                          page |-> Page(status,
                                        IF status = "ok" THEN TextOf(<<"hospital">>, hd)
                                        ELSE EmptyText),
                          max_days |-> md,
                          today |-> OrderToday]
    /\ ret = [st |-> "bool", val |-> FALSE, fetched |-> FALSE]
    /\ exc = "none"
    /\ first_run = <<>>
    /\ requests = <<>>
    /\ IdleFetch
    /\ IdleSend

NextOrder == CallIsRecent

SpecOrder == InitOrder /\ [][NextOrder]_vars

\* the date a text gives by the claim: of the patterns D.MON.YYYY,
\* DD.MM.YYYY, ISO, EN that occur in it, the first in that order, and its
\* leftmost occurrence; <<>> when the text holds no date
DateOfText(dates) ==
    LET order == <<"ptmon", "num", "iso", "en">>
        present == {p \in 1..4 : \E j \in 1..Len(dates) : dates[j].kind = order[p]}
    IN  IF present = {} THEN <<>>
        ELSE LET p == CHOOSE q \in present : \A r \in present : q <= r
                 at == {j \in 1..Len(dates) : dates[j].kind = order[p]}
             IN  <<dates[CHOOSE j \in at : \A h \in at : j <= h]>>

\* the date of the article by the claim: title, then URL, then fetched page
ResolvedDate(a) ==
    IF DateOfText(a.title.dates) # <<>> THEN DateOfText(a.title.dates)
    ELSE IF a.url.udate # <<>> THEN <<a.url.udate[1]>>
    ELSE IF a.page.status = "ok" THEN DateOfText(a.page.html.dates)
    ELSE <<>>

\* C14: the date of the freshness check is the first resolved in the order
\* title, URL, fetched page; the page is requested only when title and URL
\* give no date; within a text the patterns D.MON.YYYY, DD.MM.YYYY, ISO, EN
\* are tried in that order and the first to match wins.
C14_ResolutionOrder ==
    pc = "is_recent_returned" =>
        LET d == ResolvedDate(arg) IN
        /\ ret.st = "bool"
        /\ d = <<>> => ret.val = FALSE
        /\ d # <<>> =>
              ret.val = (DaysBetween(arg.today, d[1]) \in 0..arg.max_days)
        /\ requests # <<>> <=> (arg.title.dates = <<>> /\ arg.url.udate = <<>>)

\* a title with a recent EN date followed by a stale D.MON.YYYY date, with
\* a recent date in the URL, was rejected without a request
C14_Witness ==
    /\ pc = "is_recent_returned"
    /\ Len(arg.title.dates) = 2
    /\ arg.title.dates[1] = Token("en", arg.today)
    /\ arg.title.dates[2].kind = "ptmon"
    /\ arg.title.dates[2] # Token("ptmon", arg.today)
    /\ arg.url.udate = <<Token("url", arg.today)>>
    /\ ret.val = FALSE
    /\ requests = <<>>

(***************************************************************************)
(* C15.                                                                    *)
(***************************************************************************)
\* the links of the page that pass every filter
PassingLinks == {k \in 1..Len(arg.links) : Passes(arg.source, arg.links[k], arg.today)}

\* no link of the page carries a malformed date
NoMalformedDate ==
    \A k \in 1..Len(arg.links) :
        is_recent_with_article_fetch(arg.links[k].text, arg.links[k].href,
                                     arg.links[k].page, MaxDaysOf(arg.source),
                                     arg.today).st # "ValueError"

LinksOf(art) ==
    {k \in 1..Len(arg.links) :
        normalize_amp_url(arg.links[k].href) = art.url /\ arg.links[k].text = art.title}

\* the date of a link by title, URL, fetched page; <<>> when none resolves
DateOfLink(link) ==
    ResolvedDate([title |-> link.text, url |-> normalize_amp_url(link.href),
                  page |-> link.page])

\* C16: every article of a digest has a resolved date d with
\* 0 <= today - d <= 2 in the brasil section and 0 <= today - d <= 1 in every
\* other; an article with no resolvable date, or a date in the future, is
\* never in a digest.
C16_FreshnessWindow ==
    pc = "digest" =>
        \A pl \in Places(grouped) :
            LET art == grouped[pl[1]][pl[2]] IN
            /\ LinksOf(art) # {}
            /\ \A k \in LinksOf(art) :
                  LET d == DateOfLink(arg.links[k]) IN
                  /\ d # <<>>
                  /\ ValidDate(d[1].y, d[1].m, d[1].d)
                  /\ DaysBetween(arg.today, d[1])
                        \in 0..(IF art.section = SECTION_BRASIL THEN 2 ELSE 1)

\* a mundo source listed links dated 1 and 2 days back, a link dated
\* tomorrow and an undated one, and one article made the digest
C16_Witness ==
    /\ pc = "digest"
    /\ arg.source.section = SECTION_MUNDO
    /\ {arg.links[k].href.path : k \in 1..Len(arg.links)} = {21, 22, 24, 25}
    /\ Len(grouped[SECTION_MUNDO]) = 1
    /\ grouped[SECTION_MUNDO][1].url.path = 21

(***************************************************************************)
(* C17, C18, C19.                                                          *)
(***************************************************************************)
\* the elements of a sequence
Range(seq) == {seq[k] : k \in 1..Len(seq)}

\* the requests of one kind issued so far
RequestsOf(op) == {k \in 1..Len(requests) : requests[k].op = op}

\* C17: in a manual run (workflow_dispatch) the email goes to exactly the
\* addresses of TO_EMAILS_MANUAL, the contacts API is never called, and with
\* TO_EMAILS_MANUAL empty the run raises and sends nothing.
C17_ManualRunOnlyManualList ==
    arg.env.event = "workflow_dispatch" =>
        /\ RequestsOf("GET contacts") = {}
        /\ \A k \in RequestsOf("POST email") :
              /\ requests[k].to # <<>>
              /\ Range(requests[k].to) = Range(NonEmptyPieces(arg.env.manual))
        /\ NonEmptyPieces(arg.env.manual) = <<>> =>
              /\ RequestsOf("POST email") = {}
              /\ pc # "main_done"
              /\ pc = "exited" => exit_code = 1

\* a manual run with a Brevo list id in TO_EMAILS has sent to the two
\* addresses of TO_EMAILS_MANUAL and ended
C17_Witness ==
    /\ arg.env.event = "workflow_dispatch"
    /\ arg.env.to = <<"7">>
    /\ arg.env.manual = <<"a@x.com", "b@x.com">>
    /\ pc = "exited"
    /\ exit_code = 0
    /\ \E k \in RequestsOf("POST email") : requests[k].to = <<"a@x.com", "b@x.com">>

\* the answer of the contacts API to the j-th request of the expansion
AnswerTo(j) ==
    IF j <= Len(arg.pages) THEN arg.pages[j]
    ELSE [status |-> 200, count |-> 0, emails |-> <<>>]

\* C18: in a scheduled run with a numeric TO_EMAILS the pages of the list
\* are requested at offsets 0, 100, 200, ... until one is empty or holds
\* fewer than 100 contacts, and the send request comes only after that; if a
\* page request answers with a status >= 300, or the list has no contact,
\* the run raises and no send request is issued, TO_EMAILS_MANUAL or not.
C18_ExpansionBeforeSend ==
    (arg.env.event # "workflow_dispatch" /\ arg.env.to = <<"7">>) =>
        LET gets == RequestsOf("GET contacts")
            n == Cardinality(gets)
            failed == \E j \in 1..n : AnswerTo(j).status >= 300
            complete == n >= 1 /\ ~failed /\ AnswerTo(n).count < 100
            expanded == UNION {Range(AnswerTo(j).emails) : j \in 1..n}
        IN  /\ \A k \in gets :
                  requests[k].offset = 100 * Cardinality({h \in gets : h < k})
            /\ \A j \in 1..(n - 1) :
                  AnswerTo(j).status < 300 /\ AnswerTo(j).count = 100
            /\ \A k \in RequestsOf("POST email") :
                  /\ complete /\ expanded # {}
                  /\ \A h \in gets : h < k
            /\ (failed \/ (complete /\ expanded = {})) =>
                  /\ RequestsOf("POST email") = {}
                  /\ pc \in {"main_raised", "exited"}
                  /\ pc = "exited" => exit_code = 1

\* a scheduled run with TO_EMAILS_MANUAL set got a full first page and an
\* error for the second, and ended without a send request
C18_Witness ==
    /\ arg.env.event = "schedule"
    /\ arg.env.to = <<"7">>
    /\ arg.env.manual = <<"a@x.com">>
    /\ Len(arg.pages) = 2
    /\ arg.pages[1].count = 100
    /\ arg.pages[2].status = 500
    /\ Cardinality(RequestsOf("GET contacts")) = 2
    /\ RequestsOf("POST email") = {}
    /\ pc = "exited"
    /\ exit_code = 1

\* the emails of the first n answers of the contacts API, in order
RECURSIVE ExpandedList(_)
ExpandedList(n) == IF n = 0 THEN <<>> ELSE ExpandedList(n - 1) \o AnswerTo(n).emails

\* the elements of seq that occur at no earlier position, in order
RECURSIVE FirstOccurrences(_, _)
FirstOccurrences(seq, k) ==
    IF k > Len(seq) THEN <<>>
    ELSE (IF \E j \in 1..(k - 1) : seq[j] = seq[k] THEN <<>> ELSE <<seq[k]>>)
         \o FirstOccurrences(seq, k + 1)

\* C19: in a scheduled run the recipients of the send request are the
\* TO_EMAILS_MANUAL addresses followed by the main list (static TO_EMAILS or
\* the expanded Brevo list), each configured address once, at the place of
\* its first occurrence.
C19_ScheduledRecipients ==
    arg.env.event # "workflow_dispatch" =>
        \A k \in RequestsOf("POST email") :
            LET manual == NonEmptyPieces(arg.env.manual)
                main == IF arg.env.to = <<"7">>
                        THEN ExpandedList(Cardinality(RequestsOf("GET contacts")))
                        ELSE NonEmptyPieces(arg.env.to)
                to == requests[k].to
            IN  /\ to = FirstOccurrences(manual \o main, 1)
                /\ Range(to) = Range(manual) \cup Range(main)
                /\ \A a, b \in 1..Len(to) : to[a] = to[b] => a = b

\* a scheduled run with an address in both lists has sent
C19_Witness ==
    /\ arg.env.event = "schedule"
    /\ arg.env.manual = <<"a@x.com", "b@x.com">>
    /\ arg.env.to = <<"c@x.com", "a@x.com">>
    /\ \E k \in RequestsOf("POST email") :
          requests[k].to = <<"a@x.com", "b@x.com", "c@x.com">>
    /\ pc = "exited"
    /\ exit_code = 0

(***************************************************************************)
(* SpecScore: compute_score applied to two articles of one url, source and *)
(* section, with titles of at most MaxScoreWords words.                    *)
(***************************************************************************)
MaxScoreWords == 2

ScoreVocab == {"hospital", "telemedicina", "fusao", "operadora", "inaugura", "congresso"}

InitScore ==
    /\ pc = "call_compute_score"
    /\ \E na, nb \in 0..MaxScoreWords :
          \E ta \in [1..na -> ScoreVocab], tb \in [1..nb -> ScoreVocab],
             site \in {"https://www.estadao.com.br", "https://exame.com"},
             sec \in {SECTION_BRASIL, SECTION_HEALTHTECHS} :
             arg = [a |-> Article(TextOf(ta, <<>>), Url(site, 1, <<>>, FALSE, FALSE),
                                  "Estadao - Saude", sec, 0),
                    b |-> Article(TextOf(tb, <<>>), Url(site, 1, <<>>, FALSE, FALSE),
                                  "Estadao - Saude", sec, 0)]
    /\ ret = [a |-> 0, b |-> 0]
    /\ exc = "none"
    /\ first_run = <<>>
    /\ requests = <<>>
    /\ IdleFetch
    /\ IdleSend

CallComputeScore ==
    /\ pc = "call_compute_score"
    /\ ret' = [a |-> compute_score(arg.a), b |-> compute_score(arg.b)]
    /\ pc' = "compute_score_returned"
    /\ UNCHANGED <<arg, first_run, exc, requests, fetchVars, log, sendVars>>

NextScore == CallComputeScore

SpecScore == InitScore /\ [][NextScore]_vars

\* the entries of a table of terms that a title hits
Hits(table, art) ==
    {k \in 1..Len(table) : In(table[k][1], Lower(art.title.words))}

\* the positive keywords and the topic boosts that a title hits
BaseHits(art) ==
    LET t == Lower(art.title.words) IN
    <<{k \in 1..Len(POSITIVE_KEYWORDS) : In(POSITIVE_KEYWORDS[k], t)},
      In(<<"telemedicina">>, t) \/ In(<<"atendimento", "virtual">>, t),
      In(<<"saude", "mental">>, t) \/ In(<<"bets">>, t),
      In(<<"inteligencia", "artificial">>, t)>>

\* the sum of the weights of a set of entries
RECURSIVE WeightOf(_, _)
WeightOf(table, hits) ==
    IF hits = {} THEN 0
    ELSE LET k == CHOOSE h \in hits : TRUE IN
         table[k][2] + WeightOf(table, hits \ {k})

\* C20: of two articles with one url, source and section and the same
\* positive-keyword and topic-boost hits, the one whose title hits a
\* strategic term and no physical-event term scores strictly higher than the
\* one whose title hits a physical-event term and no strategic term; each
\* strategic hit adds its positive weight and each physical-event hit its
\* negative weight, all of them summed.
C20_StrategicOutranksCeremonial ==
    (pc = "compute_score_returned" /\ BaseHits(arg.a) = BaseHits(arg.b)) =>
        LET sa == Hits(STRATEGIC_TERMS, arg.a)
            sb == Hits(STRATEGIC_TERMS, arg.b)
            pa == Hits(PHYSICAL_EVENT_TERMS, arg.a)
            pb == Hits(PHYSICAL_EVENT_TERMS, arg.b)
        IN  /\ (sa # {} /\ pa = {} /\ pb # {} /\ sb = {}) => ret.a > ret.b
            /\ ret.a - ret.b =
                  (WeightOf(STRATEGIC_TERMS, sa) + WeightOf(PHYSICAL_EVENT_TERMS, pa))
                  - (WeightOf(STRATEGIC_TERMS, sb) + WeightOf(PHYSICAL_EVENT_TERMS, pb))
            /\ \A k \in sa \cup sb : STRATEGIC_TERMS[k][2] > 0
            /\ \A k \in pa \cup pb : PHYSICAL_EVENT_TERMS[k][2] < 0

\* 'hospital fusao' against 'hospital inaugura': 8 against -4
C20_Witness ==
    /\ pc = "compute_score_returned"
    /\ arg.a.title.words = <<"hospital", "fusao">>
    /\ arg.b.title.words = <<"hospital", "inaugura">>
    /\ arg.a.url.site = "https://www.estadao.com.br"
    /\ arg.a.section = SECTION_BRASIL
    /\ ret.a = 8
    /\ ret.b = -4

(***************************************************************************)
(* SpecRender: render_html applied to the digests that fetch_all_news      *)
(* makes of at most MaxRenderArts articles.                                *)
(***************************************************************************)
MaxRenderArts == 6

\* titles of score 1, 1, 7 and 13
RenderTitles ==
    {<<"hospital", "extraordinariamente">>,
     <<"wellness", "extraordinariamente">>,
     <<"telemedicina", "extraordinariamente">>,
     <<"operadora", "anuncia", "fusao", "extraordinariamente">>}

\* article k of a run: its URL is its own, its section is mundo every
\* every-th article (never when every is 0)
RenderArticle(k, words, every) ==
    Scored(Article(TextOf(words, <<>>),
                   Url("https://www.estadao.com.br", k, <<>>, FALSE, FALSE),
                   "Estadao - Saude",
                   IF every > 0 /\ k % every = 0 THEN SECTION_MUNDO ELSE SECTION_BRASIL,
                   0))

InitRender ==
    /\ pc = "call_render_html"
    /\ \E n \in 0..MaxRenderArts, every \in {0, 2, 3} :
          \E t \in [1..n -> RenderTitles] :
             /\ all_articles = SortByScoreDesc([k \in 1..n |-> RenderArticle(k, t[k], every)])
             /\ grouped = group_articles_by_section(all_articles)
             /\ arg = [sections |-> grouped]
    /\ ret = FALSE
    /\ exc = "none"
    /\ first_run = <<>>
    /\ requests = <<>>
    /\ i = 1
    /\ articles = <<>>
    /\ seen_urls = {}
    /\ IdleSend

CallRenderHtml ==
    /\ pc = "call_render_html"
    /\ ret' = render_html(arg.sections)
    /\ pc' = "render_html_returned"
    /\ UNCHANGED <<arg, first_run, exc, requests, fetchVars, log, sendVars>>

NextRender == CallRenderHtml

SpecRender == InitRender /\ [][NextRender]_vars

\* the articles of a digest
ArticlesOf(g) == {g[pl[1]][pl[2]] : pl \in Places(g)}

\* C21: the top list is computed by score across all sections: it holds
\* min(5, total) articles of the digest, in non-increasing score order, and
\* no article left out of it has a strictly higher score than one in it.
C21_TopFiveAcrossSections ==
    pc = "render_html_returned" =>
        LET top == ret.top5
            all == ArticlesOf(arg.sections)
            total == Cardinality(Places(arg.sections))
        IN  /\ Len(top) = IF total < 5 THEN total ELSE 5
            /\ \A k \in 1..Len(top) : top[k] \in all
            /\ \A a, b \in 1..Len(top) : top[a] = top[b] => a = b
            /\ \A k \in 1..(Len(top) - 1) : top[k].score >= top[k + 1].score
            /\ \A art \in all \ Range(top) : \A k \in 1..Len(top) :
                  art.score <= top[k].score

\* a digest of six articles in two sections: the best of mundo is in the
\* top list and a brasil article is left out
C21_Witness ==
    /\ pc = "render_html_returned"
    /\ Len(arg.sections[SECTION_BRASIL]) = 4
    /\ Len(arg.sections[SECTION_MUNDO]) = 2
    /\ Len(ret.top5) = 5
    /\ ret.top5[1].section = SECTION_MUNDO
    /\ \E k \in 1..4 : arg.sections[SECTION_BRASIL][k] \notin Range(ret.top5)

(***************************************************************************)
(* C22.                                                                    *)
(***************************************************************************)
\* an AMP proxy URL that carries a non-empty url parameter
IsWrapped(href) ==
    /\ href.site = "https://cdn.ampproject.org"
    /\ "query_url" \in DOMAIN href
    /\ href.query_url # <<>>

\* the percent-decoded value of the url parameter: one decoding of the raw
\* value, which leaves the escapes of the target URL as they are written
PercentDecoded(href) ==
    LET q == href.query_url[1] IN
    IF q.layers = 1 THEN q.url ELSE AsUrl([q EXCEPT !.layers = @ - 1])

\* the normalized URL of a link by the claim
Canonical(href) ==
    IF IsWrapped(href) THEN PercentDecoded(href) ELSE [href EXCEPT !.amp = FALSE]

ConfigReadable(env) ==
    /\ env.api_key
    /\ env.sender
    /\ \A k \in 1..Len(env.manual) : env.manual[k] = "" \/ ValidEmail(env.manual[k])

\* the configuration and the answers of the contacts API got so far leave
\* no recipient
NoRecipientLeft ==
    LET n == Cardinality(RequestsOf("GET contacts")) IN
    /\ ConfigReadable(arg.env)
    /\ NonEmptyPieces(arg.env.manual) = <<>>
    /\ \/ arg.env.event = "workflow_dispatch"
       \/ NonEmptyPieces(arg.env.to) = <<>>
       \/ /\ arg.env.to = <<"7">>
          /\ n >= 1
          /\ \A j \in 1..n : AnswerTo(j).status < 300
          /\ AnswerTo(n).count < 100
          /\ ExpandedList(n) = <<>>

RecipientErrors == {"RuntimeError: no recipient", "RuntimeError: empty list"}

\* C23: in every execution of send_email the send request is issued at most
\* once and only with a non-empty recipient list; every path that would
\* leave the list empty raises RuntimeError before the request.
C23_SendOnceNonEmpty ==
    /\ Cardinality(RequestsOf("POST email")) <= 1
    /\ \A k \in RequestsOf("POST email") : requests[k].to # <<>>
    /\ (NoRecipientLeft /\ pc \notin {"main_filter", "send_email", "send_resolve"}) =>
          /\ RequestsOf("POST email") = {}
          /\ pc \in {"main_raised", "exited"}
          /\ pc = "main_raised" => exc \in RecipientErrors
          /\ pc = "exited" => (exit_code = 1 /\ LoggedFatal \subseteq RecipientErrors)

\* a scheduled run without TO_EMAILS_MANUAL whose Brevo list came back empty
\* has ended without a send request
C23_Witness ==
    /\ arg.env.event = "schedule"
    /\ arg.env.manual = <<>>
    /\ arg.env.to = <<"7">>
    /\ Cardinality(RequestsOf("GET contacts")) = 1
    /\ RequestsOf("POST email") = {}
    /\ pc = "exited"
    /\ LoggedFatal = {"RuntimeError: empty list"}

=============================================================================
